---- MODULE Spec2Model ----
(***************************************************************************)
(* Model of the CodeCommit-triggered selective build function              *)
(* (src/src/index.js): the handler, its three event paths and the ECR /    *)
(* CodeBuild / CodeCommit requests they issue.                              *)
(*                                                                         *)
(* Strings that the code takes apart or matches (paths, refs, registry     *)
(* names, regular expressions) are sequences of one-character strings.     *)
(***************************************************************************)
EXTENDS Integers, Sequences, FiniteSets, TLC

(***************************** bounds **************************************)
\* longest list of differences getDifferences answers with
MaxDiff == 2
\* largest number of registries that exist before the first invocation
MaxRepos == 2

(***************************** strings *************************************)
\* the value of a JavaScript binding that is undefined
Undefined == <<"undefined">>

\* `${v}`: template-literal conversion of a string or of undefined
ToStr(v) == IF v = Undefined THEN <<"u","n","d","e","f","i","n","e","d">> ELSE v

Sep == "/"

\* positions of character c in s
IndexesOf(s, c) == {i \in 1..Len(s) : s[i] = c}

Max(S) == CHOOSE x \in S : \A y \in S : y <= x
Min(S) == CHOOSE x \in S : \A y \in S : x <= y

LastIndexOf(s, c) == IF IndexesOf(s, c) = {} THEN 0 ELSE Max(IndexesOf(s, c))

\* String.prototype.split(sep) for a one-character separator
RECURSIVE Split(_, _)
Split(s, c) ==
  IF IndexesOf(s, c) = {} THEN <<s>>
  ELSE LET i == Min(IndexesOf(s, c))
       IN <<SubSeq(s, 1, i - 1)>> \o Split(SubSeq(s, i + 1, Len(s)), c)

\* Array.prototype.join(sep)
RECURSIVE Join(_, _)
Join(segs, c) ==
  IF Len(segs) = 0 THEN <<>>
  ELSE IF Len(segs) = 1 THEN segs[1]
  ELSE segs[1] \o <<c>> \o Join(Tail(segs), c)

\* s.includes(w) for strings: w occurs in s
Contains(s, w) ==
  \E i \in 1..(Len(s) - Len(w) + 1) : SubSeq(s, i, i + Len(w) - 1) = w

\* Array.prototype.includes
Includes(arr, x) == \E i \in 1..Len(arr) : arr[i] = x

\* path.parse(p) of a relative POSIX path: dir, base, name, ext
PathParse(p) ==
  LET slash == LastIndexOf(p, Sep)
      dir   == IF slash = 0 THEN <<>> ELSE SubSeq(p, 1, slash - 1)
      base  == SubSeq(p, slash + 1, Len(p))
      dot   == LastIndexOf(base, ".")
  IN  [dir  |-> dir,
       base |-> base,
       name |-> IF dot > 1 THEN SubSeq(base, 1, dot - 1) ELSE base,
       ext  |-> IF dot > 1 THEN SubSeq(base, dot, Len(base)) ELSE <<>>]

\* path.basename(p)
Basename(p) == PathParse(p).base

\* RegExp.prototype.test for an anchored pattern ^pat$ whose metacharacters
\* are "." (any character) and "*" (repetition of the preceding atom)
RECURSIVE RegexMatch(_, _)
RegexMatch(pat, s) ==
  IF Len(pat) = 0 THEN Len(s) = 0
  ELSE IF Len(pat) >= 2 /\ pat[2] = "*"
  THEN \/ RegexMatch(SubSeq(pat, 3, Len(pat)), s)
       \/ /\ Len(s) > 0
          /\ (pat[1] = "." \/ pat[1] = s[1])
          /\ RegexMatch(pat, Tail(s))
  ELSE /\ Len(s) > 0
       /\ (pat[1] = "." \/ pat[1] = s[1])
       /\ RegexMatch(Tail(pat), Tail(s))

(***************************** configuration *******************************)
EXTENSIONS == <<(<<".", "j", "s">>)>>
FILENAMES == << <<"D","o","c","k","e","r","F","i","l","e">>,
                <<"D","o","c","k","e","r","f","i","l","e">> >>
SERVICES_PATH == <<"b","a","c","k","e","n","d","/","s","e","r","v","i","c","e","s">>
SERVICE_PREFIX == <<"c","u","s","t","o","m","e","r","-","p","o","r","t","a","l">>

\* the words of the pattern /master|main|dev|prod/
ProtectedWords == { <<"m","a","s","t","e","r">>, <<"m","a","i","n">>,
                    <<"d","e","v">>, <<"p","r","o","d">> }

\* the test left out: no branch counts as protected
ProtectedTestOmitted(b) == FALSE

\* /master|main|dev|prod/.test(b)
ProtectedTest(b) == \E w \in ProtectedWords : Contains(b, w)

\* `${SERVICE_PREFIX}-${serviceName}-${branchName}`
EcrName(serviceName, branchName) ==
  SERVICE_PREFIX \o <<"-">> \o ToStr(serviceName) \o <<"-">> \o ToStr(branchName)

\* the pattern with "_" where the code has "."
DeleteRegexUnderscore(branchName, serviceName) ==
  IF serviceName # Undefined /\ serviceName # <<>>
  THEN SERVICE_PREFIX \o <<"_">> \o serviceName \o <<"_">> \o ToStr(branchName)
  ELSE SERVICE_PREFIX \o <<"_", "*", "_">> \o ToStr(branchName)

\* the pattern deleteEcrRepository builds, without its ^ and $
DeleteRegex(branchName, serviceName) ==
  IF serviceName # Undefined /\ serviceName # <<>>
  THEN SERVICE_PREFIX \o <<".">> \o serviceName \o <<".">> \o ToStr(branchName)
  ELSE SERVICE_PREFIX \o <<".", "*", ".">> \o ToStr(branchName)

\* the condition under which deleteEcrRepository deletes repositoryName
ShouldDelete(branchName, serviceName, repositoryName) ==
  /\ ~ProtectedTest(ToStr(branchName))
  /\ RegexMatch(DeleteRegex(branchName, serviceName), repositoryName)

(***************************** inputs **************************************)
Api == <<"a","p","i">>
Web == <<"w","e","b">>
Backend == <<"b","a","c","k","e","n","d">>
Services == <<"s","e","r","v","i","c","e","s">>
Src == <<"s","r","c">>
XJs == <<"x",".","j","s">>
YJs == <<"y",".","j","s">>
Dockerfile == <<"D","o","c","k","e","r","f","i","l","e">>
Readme == <<"R","E","A","D","M","E",".","m","d">>
DockerfileBak == <<"D","o","c","k","e","r","f","i","l","e",".","b","a","k">>

\* branch names: an ordinary one, one whose name ends with it, a protected
\* one whose name ends with it, and a protected one
F1 == <<"f","1">>
XF1 == <<"x","f","1">>
DevF1 == <<"d","e","v","f","1">>
Main == <<"m","a","i","n">>

KnownServices == {Api, Web}
KnownBranches == {F1, XF1, DevF1, Main}

\* the ref of a branch as CodeCommit sends it
RefOf(b) == <<"r","e","f","s","/","h","e","a","d","s","/">> \o b

\* a difference as getDifferences answers it: an added file has no
\* beforeBlob, a deleted file no afterBlob
Difference(changeType, segs) ==
  [changeType |-> changeType,
   beforeBlob |-> IF changeType = "A" THEN Undefined ELSE Join(segs, Sep),
   afterBlob  |-> IF changeType = "D" THEN Undefined ELSE Join(segs, Sep)]

DiffApiJs == Difference("M", <<Backend, Services, Api, Src, XJs>>)
DiffApiMarkerDeleted == Difference("D", <<Backend, Services, Api, Dockerfile>>)
DiffWebJs == Difference("M", <<Backend, Services, Web, XJs>>)
DiffWebAdded == Difference("A", <<Backend, Services, Web, YJs>>)
DiffTopJs == Difference("M", <<XJs>>)
DiffApiReadme == Difference("M", <<Backend, Services, Api, Readme>>)
DiffShallowMarkerDeleted == Difference("D", <<Backend, Dockerfile>>)
DiffApiMarkerBak == Difference("M", <<Backend, Services, Api, DockerfileBak>>)

Changes == {DiffApiJs, DiffApiMarkerDeleted, DiffWebJs, DiffWebAdded,
            DiffTopJs, DiffApiReadme, DiffShallowMarkerDeleted, DiffApiMarkerBak}

\* the lists of at most n elements of S
RECURSIVE SeqsUpTo(_, _)
SeqsUpTo(S, n) ==
  IF n = 0 THEN {<<>>}
  ELSE LET shorter == SeqsUpTo(S, n - 1)
       IN shorter \cup {Append(q, x) : q \in shorter, x \in S}

DiffLists == SeqsUpTo(Changes, MaxDiff)

\* the subFolders getFolder answers for SERVICES_PATH
SubFolder(s) == [relativePath |-> s, absolutePath |-> SERVICES_PATH \o <<Sep>> \o s]
FolderLists == { <<>>, <<SubFolder(Api)>>, <<SubFolder(Api), SubFolder(Web)>> }

\* the parts of the event the handler destructures: the ref and the flags
\* of Records[0].codecommit.references[0]; missing names the part that is
\* absent ("none": the event is complete)
Event(b, deleted, created) ==
  [ref |-> RefOf(b), deleted |-> deleted, created |-> created, missing |-> "none"]
NoEvent == [ref |-> <<>>, deleted |-> FALSE, created |-> FALSE, missing |-> "none"]

\* an event without its Records, without the references of its record,
\* without the ref of its reference, or without its eventSourceARN
MalformedEvent(missing, deleted, created) ==
  [ref |-> IF missing = "eventSourceARN" THEN RefOf(F1) ELSE Undefined,
   deleted |-> deleted, created |-> created, missing |-> missing]
MalformedEvents ==
  {MalformedEvent(m, FALSE, FALSE) : m \in {"Records", "references"}}
    \cup {MalformedEvent(m, d, c) : m \in {"ref", "eventSourceARN"},
                                     d \in BOOLEAN, c \in BOOLEAN}

Invocations == {1, 2}

(***************************** state ***************************************)
VARIABLES
  repos,           \* ECR: the names of the registries that exist
  calls,           \* the requests issued so far to CodeCommit and ECR
  builds,          \* the builds submitted so far to CodeBuild (startBuild)
  event,           \* per invocation: the event it handles
  hpc,             \* per invocation: where the handler's promise stands
  differences,     \* per invocation: the list getDifferences answered
  idx,             \* per invocation: the element differences.map is at
  hasQueuedBuild,  \* per invocation: the array of that name
  tasks,           \* per invocation: the promises/values the map callbacks made
  exited           \* per invocation: an unhandled rejection ended the process

vars == <<repos, calls, builds, event, hpc, differences, idx, hasQueuedBuild, tasks,
          exited>>

\* a request to a collaborator, issued by element t of invocation inv
\* (t = 0: by the handler itself)
Call(inv, t, op, name) == [inv |-> inv, task |-> t, op |-> op, name |-> name]

\* one element of the array a path builds: kind is "skip" (a plain value),
\* "ensure" (checkEcrRepository then build), "create" (createEcrRepository
\* then build) or "delete" (deleteEcrRepository).  pc is the request it
\* waits for ("done": none), settled the state of the promise in the array,
\* repository the reference it obtained, entries what deleteEcrRepository
\* mapped the listed repositories to; described and created are how its
\* lookup and its createRepository answered, ensured how the promise of
\* checkEcrRepository settled; unhandled: a promise of the element rejected
\* with no handler attached.
Task(kind, serviceName, serviceDirectory, fileName, repositoryName, pc, settled) ==
  [kind |-> kind, serviceName |-> serviceName,
   serviceDirectory |-> serviceDirectory, fileName |-> fileName,
   repositoryName |-> repositoryName, pc |-> pc, settled |-> settled,
   repository |-> Undefined, entries |-> {},
   described |-> "none", created |-> "none",
   ensured |-> IF kind = "ensure" THEN "pending" ELSE "n/a",
   unhandled |-> FALSE]

branchName(inv) == Basename(event[inv].ref)

InitState(initialRepos) ==
  /\ repos \in initialRepos
  /\ calls = {}
  /\ builds = {}
  /\ event = [inv \in Invocations |-> NoEvent]
  /\ hpc = [inv \in Invocations |-> "idle"]
  /\ differences = [inv \in Invocations |-> <<>>]
  /\ idx = [inv \in Invocations |-> 0]
  /\ hasQueuedBuild = [inv \in Invocations |-> <<>>]
  /\ tasks = [inv \in Invocations |-> <<>>]
  /\ exited = [inv \in Invocations |-> FALSE]

(***************************** handler *************************************)
\* the handler with the created flag tested before the deleted flag
handlerCreatedFirst(inv, ev) ==
  /\ hpc[inv] = "idle"
  /\ event' = [event EXCEPT ![inv] = ev]
  /\ IF ev.missing # "none"
     THEN /\ hpc' = [hpc EXCEPT ![inv] = "returned"]
          /\ UNCHANGED <<calls, tasks>>
     ELSE IF ev.created
     THEN /\ calls' = calls \cup {Call(inv, 0, "getFolder", SERVICES_PATH)}
          /\ hpc' = [hpc EXCEPT ![inv] = "getFolder"]
          /\ UNCHANGED tasks
     ELSE IF ev.deleted
     THEN /\ tasks' = [tasks EXCEPT ![inv] =
                 <<Task("delete", Undefined, Undefined, Undefined, Undefined,
                        "list", "pending")>>]
          /\ calls' = calls \cup {Call(inv, 1, "describeRepositories", <<>>)}
          /\ hpc' = [hpc EXCEPT ![inv] = "settling"]
     ELSE /\ calls' = calls \cup {Call(inv, 0, "getCommit", <<>>)}
          /\ hpc' = [hpc EXCEPT ![inv] = "getCommit"]
          /\ UNCHANGED tasks
  /\ UNCHANGED <<repos, builds, differences, idx, hasQueuedBuild, exited>>

\* handler: destructure the event and take one of the three paths; each
\* path starts with one request.  The destructuring of an incomplete event
\* throws (Records or references not iterable, eventSourceARN.split or
\* path.basename of undefined) inside the try: the catch logs the error
\* and the async function returns undefined
handler(inv, ev) ==
  /\ hpc[inv] = "idle"
  /\ event' = [event EXCEPT ![inv] = ev]
  /\ IF ev.missing # "none"
     THEN /\ hpc' = [hpc EXCEPT ![inv] = "returned"]
          /\ UNCHANGED <<calls, tasks>>
     ELSE IF ev.deleted
     THEN /\ tasks' = [tasks EXCEPT ![inv] =
                 <<Task("delete", Undefined, Undefined, Undefined, Undefined,
                        "list", "pending")>>]
          /\ calls' = calls \cup {Call(inv, 1, "describeRepositories", <<>>)}
          /\ hpc' = [hpc EXCEPT ![inv] = "settling"]
     ELSE IF ev.created
     THEN /\ calls' = calls \cup {Call(inv, 0, "getFolder", SERVICES_PATH)}
          /\ hpc' = [hpc EXCEPT ![inv] = "getFolder"]
          /\ UNCHANGED tasks
     ELSE /\ calls' = calls \cup {Call(inv, 0, "getCommit", <<>>)}
          /\ hpc' = [hpc EXCEPT ![inv] = "getCommit"]
          /\ UNCHANGED tasks
  /\ UNCHANGED <<repos, builds, differences, idx, hasQueuedBuild, exited>>

\* createServiceRepositories after getFolder answered: one
\* createEcrRepository per sub-folder; the async function returns the array
\* of promises, so its own promise (and the handler's) fulfils at once
createServiceRepositories(inv, subFolders) ==
  /\ hpc[inv] = "getFolder"
  /\ tasks' = [tasks EXCEPT ![inv] =
        [t \in 1..Len(subFolders) |->
           Task("create", subFolders[t].relativePath, subFolders[t].absolutePath,
                Undefined, EcrName(subFolders[t].relativePath, branchName(inv)),
                "create", "pending")]]
  /\ calls' = calls \cup
        {Call(inv, t, "createRepository",
              EcrName(subFolders[t].relativePath, branchName(inv))) :
           t \in 1..Len(subFolders)}
  /\ hpc' = [hpc EXCEPT ![inv] = "returned"]
  /\ UNCHANGED <<repos, builds, event, differences, idx, hasQueuedBuild, exited>>

\* getFolder fails: createServiceRepositories rejects and so does the handler
getFolderFails(inv) ==
  /\ hpc[inv] = "getFolder"
  /\ hpc' = [hpc EXCEPT ![inv] = "failed"]
  /\ UNCHANGED <<repos, calls, builds, event, differences, idx, hasQueuedBuild, tasks, exited>>

\* updateErcImages after getCommit answered: ask for the differences
getLastCommitLog(inv) ==
  /\ hpc[inv] = "getCommit"
  /\ calls' = calls \cup {Call(inv, 0, "getDifferences", <<>>)}
  /\ hpc' = [hpc EXCEPT ![inv] = "getDifferences"]
  /\ UNCHANGED <<repos, builds, event, differences, idx, hasQueuedBuild, tasks, exited>>

\* the rejection of getCommit swallowed: the differences are asked for
getCommitFailsIgnored(inv) ==
  /\ hpc[inv] = "getCommit"
  /\ calls' = calls \cup {Call(inv, 0, "getDifferences", <<>>)}
  /\ hpc' = [hpc EXCEPT ![inv] = "getDifferences"]
  /\ UNCHANGED <<repos, builds, event, differences, idx, hasQueuedBuild, tasks, exited>>

\* getCommit fails: updateErcImages rejects and so does the handler
getCommitFails(inv) ==
  /\ hpc[inv] = "getCommit"
  /\ hpc' = [hpc EXCEPT ![inv] = "failed"]
  /\ UNCHANGED <<repos, calls, builds, event, differences, idx, hasQueuedBuild, tasks, exited>>

\* getDifferences answered: differences.map starts with an empty hasQueuedBuild
getFileDifferences(inv, diffs) ==
  /\ hpc[inv] = "getDifferences"
  /\ differences' = [differences EXCEPT ![inv] = diffs]
  /\ idx' = [idx EXCEPT ![inv] = 1]
  /\ hasQueuedBuild' = [hasQueuedBuild EXCEPT ![inv] = <<>>]
  /\ hpc' = [hpc EXCEPT ![inv] = "map"]
  /\ UNCHANGED <<repos, calls, builds, event, tasks, exited>>

getDifferencesFails(inv) ==
  /\ hpc[inv] = "getDifferences"
  /\ hpc' = [hpc EXCEPT ![inv] = "failed"]
  /\ UNCHANGED <<repos, calls, builds, event, differences, idx, hasQueuedBuild, tasks, exited>>

(***************************** updateErcImages *****************************)
\* the destructuring of path.parse(servicePath) in the map callback
Resolve(servicePath) ==
  LET parsed    == PathParse(servicePath)
      pathArray == Split(parsed.dir, Sep)
  IN  [serviceName      |-> IF Len(pathArray) >= 3 THEN pathArray[3] ELSE Undefined,
       serviceDirectory |-> Join(SubSeq(pathArray, 1,
                                        IF Len(pathArray) < 3 THEN Len(pathArray) ELSE 3),
                                 Sep),
       fileName         |-> parsed.name,
       extension        |-> parsed.ext]

\* the branch the map callback takes for a difference that has a beforeBlob
ActionFor(difference, queued) ==
  LET r       == Resolve(difference.beforeBlob)
      deleted == (difference.changeType = "D")
  IN  IF Includes(FILENAMES, r.fileName) /\ deleted /\ ~Includes(queued, r.serviceName)
      THEN "delete"
      ELSE IF /\ Includes(EXTENSIONS, r.extension) \/ Includes(FILENAMES, r.fileName)
              /\ ~Includes(queued, r.serviceName)
      THEN "ensure"
      ELSE "skip"

\* one call of the callback of differences.map.  A difference without a
\* beforeBlob makes the destructuring throw: the map is abandoned and
\* updateErcImages rejects, whatever the earlier callbacks started.
mapDifference(inv) ==
  /\ hpc[inv] = "map"
  /\ idx[inv] <= Len(differences[inv])
  /\ LET difference == differences[inv][idx[inv]]
         t          == Len(tasks[inv]) + 1
     IN  IF difference.beforeBlob = Undefined
         THEN /\ hpc' = [hpc EXCEPT ![inv] = "failed"]
              /\ UNCHANGED <<calls, idx, hasQueuedBuild, tasks, exited>>
         ELSE LET r    == Resolve(difference.beforeBlob)
                  act  == ActionFor(difference, hasQueuedBuild[inv])
                  name == EcrName(r.serviceName, branchName(inv))
              IN  /\ idx' = [idx EXCEPT ![inv] = @ + 1]
                  /\ UNCHANGED hpc
                  /\ hasQueuedBuild' =
                       IF act = "skip" THEN hasQueuedBuild
                       ELSE [hasQueuedBuild EXCEPT ![inv] = Append(@, r.serviceName)]
                  /\ tasks' = [tasks EXCEPT ![inv] = Append(@,
                       IF act = "delete"
                       THEN Task("delete", r.serviceName, r.serviceDirectory, r.fileName,
                                 Undefined, "list", "pending")
                       ELSE IF act = "ensure"
                       THEN Task("ensure", r.serviceName, r.serviceDirectory, r.fileName,
                                 name, "describe", "pending")
                       ELSE Task("skip", r.serviceName, r.serviceDirectory, r.fileName,
                                 Undefined, "done", "fulfilled"))]
                  /\ calls' =
                       IF act = "delete"
                       THEN calls \cup {Call(inv, t, "describeRepositories", <<>>)}
                       ELSE IF act = "ensure"
                       THEN calls \cup {Call(inv, t, "describeRepositories", name)}
                       ELSE calls
  /\ UNCHANGED <<repos, builds, event, differences, exited>>

\* the map is over: updateErcImages returns Promise.allSettled(builds)
mapDone(inv) ==
  /\ hpc[inv] = "map"
  /\ idx[inv] > Len(differences[inv])
  /\ hpc' = [hpc EXCEPT ![inv] = "settling"]
  /\ UNCHANGED <<repos, calls, builds, event, differences, idx, hasQueuedBuild, tasks, exited>>

\* the promise the handler returned settles once every element has
\* (Promise.allSettled; deleteEcrRepository's promise on the deleted path)
handlerSettles(inv) ==
  /\ hpc[inv] = "settling"
  /\ \A t \in 1..Len(tasks[inv]) : tasks[inv][t].settled # "pending"
  /\ hpc' = [hpc EXCEPT ![inv] = "returned"]
  /\ UNCHANGED <<repos, calls, builds, event, differences, idx, hasQueuedBuild, tasks, exited>>

(***************************** registry and build steps ********************)
\* a continuation of invocation inv can run: its synchronous map is not
\* in progress, its process runs, and element t waits for request pc
Waits(inv, t, pc) ==
  /\ hpc[inv] # "map"
  /\ ~exited[inv]
  /\ t \in 1..Len(tasks[inv])
  /\ tasks[inv][t].pc = pc

\* nothing handles a rejection of element task: the created path drops the
\* promise of build, and a map that threw never reached Promise.allSettled
Floating(inv, task) == task.kind = "create" \/ hpc[inv] = "failed"

\* the build callback the handler passes, called with the reference the
\* registry step answered (after the lookup and the creation went as
\* given): buildImage destructures the reference (a TypeError when it is
\* undefined) and calls startBuild
build(inv, t, repository, described, created) ==
  LET task == [tasks[inv][t] EXCEPT
                 !.described = described, !.created = created,
                 \* checkEcrRepository catches every error: it always returns
                 !.ensured = IF @ = "n/a" THEN @ ELSE "returned"]
  IN  IF repository = Undefined
      THEN /\ tasks' = [tasks EXCEPT ![inv][t] =
                 [task EXCEPT !.pc = "done", !.settled = "rejected",
                              !.unhandled = Floating(inv, task)]]
           /\ UNCHANGED builds
      ELSE /\ tasks' = [tasks EXCEPT ![inv][t] =
                 [task EXCEPT !.pc = "build", !.repository = repository,
                              \* the created path does not return the build's
                              \* promise: its chain fulfils here
                              !.settled = IF task.kind = "create" THEN "fulfilled" ELSE @]]
           /\ builds' = builds \cup
                 {[inv |-> inv, task |-> t, ECR_REPO |-> repository,
                   SERVICE_NAME |-> task.serviceName,
                   SERVICE_DIR |-> task.serviceDirectory,
                   BRANCH_NAME |-> branchName(inv)]}

\* checkEcrRepository: describeRepositories finds the registry
describeFound(inv, t) ==
  /\ Waits(inv, t, "describe")
  /\ tasks[inv][t].repositoryName \in repos
  /\ build(inv, t, tasks[inv][t].repositoryName, "found", "none")
  /\ UNCHANGED <<repos, calls, event, hpc, differences, idx, hasQueuedBuild, exited>>

\* checkEcrRepository: RepositoryNotFoundException, so createEcrRepository
describeNotFound(inv, t) ==
  /\ Waits(inv, t, "describe")
  /\ tasks[inv][t].repositoryName \notin repos
  /\ tasks' = [tasks EXCEPT ![inv][t] = [@ EXCEPT !.pc = "create", !.described = "notFound"]]
  /\ calls' = calls \cup {Call(inv, t, "createRepository", tasks[inv][t].repositoryName)}
  /\ UNCHANGED <<repos, builds, event, hpc, differences, idx, hasQueuedBuild, exited>>

\* the failed lookup answered with a reference of the name asked for
describeFailsBuilds(inv, t) ==
  /\ Waits(inv, t, "describe")
  /\ build(inv, t, tasks[inv][t].repositoryName, "error", "none")
  /\ UNCHANGED <<repos, calls, event, hpc, differences, idx, hasQueuedBuild, exited>>

\* checkEcrRepository: describeRepositories fails otherwise; the error is
\* logged and the function returns undefined
describeFails(inv, t) ==
  /\ Waits(inv, t, "describe")
  /\ build(inv, t, Undefined, "error", "none")
  /\ UNCHANGED <<repos, calls, event, hpc, differences, idx, hasQueuedBuild, exited>>

\* createRepository succeeds
createSucceeds(inv, t) ==
  /\ Waits(inv, t, "create")
  /\ tasks[inv][t].repositoryName \notin repos
  /\ repos' = repos \cup {tasks[inv][t].repositoryName}
  /\ build(inv, t, tasks[inv][t].repositoryName, tasks[inv][t].described, "created")
  /\ UNCHANGED <<calls, event, hpc, differences, idx, hasQueuedBuild, exited>>

\* createRepository fails, with RepositoryAlreadyExistsException when the
\* registry exists (exists) or with any other error.  checkEcrRepository
\* logs and returns undefined; createServiceRepositories logs in its .catch
createFails(inv, t, exists) ==
  /\ Waits(inv, t, "create")
  /\ exists => tasks[inv][t].repositoryName \in repos
  /\ LET created == IF exists THEN "exists" ELSE "error"
     IN  IF tasks[inv][t].kind = "ensure"
         THEN build(inv, t, Undefined, tasks[inv][t].described, created)
         ELSE /\ tasks' = [tasks EXCEPT ![inv][t] =
                     [@ EXCEPT !.pc = "done", !.settled = "fulfilled",
                               !.created = created]]
              /\ UNCHANGED builds
  /\ UNCHANGED <<repos, calls, event, hpc, differences, idx, hasQueuedBuild, exited>>

\* startBuild answers: the element settles (on the created path it already has)
buildAnswers(inv, t, ok) ==
  /\ Waits(inv, t, "build")
  /\ tasks' = [tasks EXCEPT ![inv][t] =
        [@ EXCEPT !.pc = "done",
                  !.settled = IF @ # "pending" THEN @
                              ELSE IF ok THEN "fulfilled" ELSE "rejected",
                  !.unhandled = ~ok /\ Floating(inv, tasks[inv][t])]]
  /\ UNCHANGED <<repos, calls, builds, event, hpc, differences, idx, hasQueuedBuild, exited>>

\* a rejection nothing handles: what the host does with it is not the
\* program's choice; it may end the process (the default of Node.js 15 and
\* later), and then no continuation of the invocation runs any more
processExits(inv) ==
  /\ ~exited[inv]
  /\ \E t \in 1..Len(tasks[inv]) : tasks[inv][t].unhandled
  /\ exited' = [exited EXCEPT ![inv] = TRUE]
  /\ UNCHANGED <<repos, calls, builds, event, hpc, differences, idx, hasQueuedBuild, tasks>>

(***************************** deleteEcrRepository *************************)
\* describeRepositories() answered: every listed repository is mapped to a
\* pending deleteRepository or to a skipped entry, then Promise.allSettled
deleteListed(inv, t) ==
  /\ Waits(inv, t, "list")
  /\ LET task     == tasks[inv][t]
         toDelete == {n \in repos : ShouldDelete(branchName(inv), task.serviceName, n)}
     IN  /\ tasks' = [tasks EXCEPT ![inv][t] =
               [task EXCEPT
                  !.entries = {[repositoryName |-> n,
                                status |-> IF n \in toDelete THEN "pending" ELSE "skipped"] :
                               n \in repos},
                  !.pc = IF toDelete = {} THEN "done" ELSE "deleting",
                  !.settled = IF toDelete = {} THEN "fulfilled" ELSE "pending"]]
         /\ calls' = calls \cup {Call(inv, t, "deleteRepository", n) : n \in toDelete}
  /\ UNCHANGED <<repos, builds, event, hpc, differences, idx, hasQueuedBuild, exited>>

\* describeRepositories() fails: the error is logged, the function returns
deleteListFails(inv, t) ==
  /\ Waits(inv, t, "list")
  /\ tasks' = [tasks EXCEPT ![inv][t] = [@ EXCEPT !.pc = "done", !.settled = "fulfilled"]]
  /\ UNCHANGED <<repos, calls, builds, event, hpc, differences, idx, hasQueuedBuild, exited>>

\* the answer of one delete taking the place of the whole report
AnsweredAlone(task, n, st) == {[repositoryName |-> n, status |-> st]}

\* the entries of element t after the delete of n answered with status st
Answered(task, n, st) ==
  (task.entries \ {[repositoryName |-> n, status |-> "pending"]})
    \cup {[repositoryName |-> n, status |-> st]}

\* one deleteRepository answers; allSettled settles after the last one
deleteAnswers(inv, t, n, ok) ==
  /\ Waits(inv, t, "deleting")
  /\ [repositoryName |-> n, status |-> "pending"] \in tasks[inv][t].entries
  /\ ok => n \in repos
  /\ repos' = IF ok THEN repos \ {n} ELSE repos
  /\ LET task    == tasks[inv][t]
         entries == Answered(task, n, IF ok THEN "deleted" ELSE "failed")
         settled == \A e \in entries : e.status # "pending"
     IN  tasks' = [tasks EXCEPT ![inv][t] =
            [task EXCEPT !.entries = entries,
                         !.pc = IF settled THEN "done" ELSE "deleting",
                         !.settled = IF settled THEN "fulfilled" ELSE "pending"]]
  /\ UNCHANGED <<calls, builds, event, hpc, differences, idx, hasQueuedBuild, exited>>

(***************************** specifications ******************************)
\* the registries an invocation may find
RepoUniverse ==
  { EcrName(Api, F1), EcrName(Web, F1), EcrName(Api, XF1), EcrName(Api, DevF1),
    EcrName(Api, Main),
    <<"o","t","h","e","r">> \o <<"-">> \o Api \o <<"-">> \o F1 }

InitialRepos == {R \in SUBSET RepoUniverse : Cardinality(R) <= MaxRepos}

\* the registries the services of the event branches can have
ServiceRepos == {EcrName(Api, F1), EcrName(Web, F1), EcrName(Api, Main)}

\* every name a registry can have in the model
RepoNames ==
  RepoUniverse \cup {EcrName(s, b) : s \in KnownServices \cup {Undefined}, b \in KnownBranches}

EventBranches == {F1, Main}
Events ==
  {Event(b, d, c) : b \in EventBranches, d \in BOOLEAN, c \in BOOLEAN}
    \cup MalformedEvents

Init == InitState(SUBSET ServiceRepos)

\* the positions an element can have in the array of an invocation
TaskSlots == 1..(MaxDiff + 2)

\* the steps of invocation inv after its event arrived
Run(inv) ==
  \/ \E subFolders \in FolderLists : createServiceRepositories(inv, subFolders)
  \/ getFolderFails(inv)
  \/ getLastCommitLog(inv)
  \/ getCommitFails(inv)
  \/ \E diffs \in DiffLists : getFileDifferences(inv, diffs)
  \/ getDifferencesFails(inv)
  \/ mapDifference(inv)
  \/ mapDone(inv)
  \/ handlerSettles(inv)
  \/ processExits(inv)
  \/ \E t \in TaskSlots : describeFound(inv, t)
  \/ \E t \in TaskSlots : describeNotFound(inv, t)
  \/ \E t \in TaskSlots : describeFails(inv, t)
  \/ \E t \in TaskSlots : createSucceeds(inv, t)
  \/ \E t \in TaskSlots, exists \in BOOLEAN : createFails(inv, t, exists)
  \/ \E t \in TaskSlots, ok \in BOOLEAN : buildAnswers(inv, t, ok)
  \/ \E t \in TaskSlots : deleteListed(inv, t)
  \/ \E t \in TaskSlots : deleteListFails(inv, t)
  \/ \E t \in TaskSlots, n \in RepoNames, ok \in BOOLEAN : deleteAnswers(inv, t, n, ok)

\* one invocation, any event
Next ==
  \/ \E ev \in Events : handler(1, ev)
  \/ Run(1)

Spec == Init /\ [][Next]_vars

\* one invocation for a branch-deleted event, any registries
DeleteEvents == {Event(b, TRUE, c) : b \in EventBranches, c \in BOOLEAN}
InitDelete == InitState(InitialRepos)

NextDelete ==
  \/ \E ev \in DeleteEvents : handler(1, ev)
  \/ \E t \in TaskSlots : deleteListed(1, t)
  \/ \E t \in TaskSlots : deleteListFails(1, t)
  \/ \E t \in TaskSlots, n \in RepoNames, ok \in BOOLEAN : deleteAnswers(1, t, n, ok)
  \/ handlerSettles(1)

SpecDelete == InitDelete /\ [][NextDelete]_vars

\* two overlapping invocations for pushes to the same branch that touch the
\* same service
OverlapEvent == Event(F1, FALSE, FALSE)
OverlapDiffs == { <<DiffApiJs>> }
InitOverlap == InitState({ {}, {EcrName(Api, F1)} })

NextOverlap ==
  \E inv \in Invocations :
    \/ handler(inv, OverlapEvent)
    \/ getLastCommitLog(inv)
    \/ \E diffs \in OverlapDiffs : getFileDifferences(inv, diffs)
    \/ mapDifference(inv)
    \/ mapDone(inv)
    \/ handlerSettles(inv)
    \/ \E t \in TaskSlots : describeFound(inv, t)
    \/ \E t \in TaskSlots : describeNotFound(inv, t)
    \/ \E t \in TaskSlots : describeFails(inv, t)
    \/ \E t \in TaskSlots : createSucceeds(inv, t)
    \/ \E t \in TaskSlots, exists \in BOOLEAN : createFails(inv, t, exists)
    \/ \E t \in TaskSlots, ok \in BOOLEAN : buildAnswers(inv, t, ok)

SpecOverlap == InitOverlap /\ [][NextOverlap]_vars

\* two invocations for pushes to the same branch whose diffs hold the same
\* changes, in any two orders; differences.map runs in each and decides
\* what the invocation issues (the answers of the registries are not taken)
Count(list, x) == Cardinality({i \in 1..Len(list) : list[i] = x})
SameChanges(a, b) == Len(a) = Len(b) /\ \A x \in Changes : Count(a, x) = Count(b, x)

NextOrder ==
  \E inv \in Invocations :
    \/ handler(inv, OverlapEvent)
    \/ getLastCommitLog(inv)
    \/ \E diffs \in DiffLists :
         /\ \A other \in Invocations \ {inv} :
              differences[other] # <<>> => SameChanges(diffs, differences[other])
         /\ getFileDifferences(inv, diffs)
    \/ mapDifference(inv)
    \/ mapDone(inv)

SpecOrder == Init /\ [][NextOrder]_vars

\* a branch-created invocation (1) that succeeds, then a branch-updated
\* invocation (2) for a push to the same branch that changes the services
SequenceChanges == {DiffApiJs, DiffApiMarkerDeleted, DiffWebJs}
SequenceDiffs == SeqsUpTo(SequenceChanges, MaxDiff)
InitSequence == InitState({{}})

\* createServiceRepositories of invocation inv created every registry and
\* its builds were taken
Succeeded(inv) ==
  /\ hpc[inv] = "returned"
  /\ \A t \in 1..Len(tasks[inv]) :
       tasks[inv][t].pc = "done" /\ tasks[inv][t].created = "created"

NextSequence ==
  \/ \E b \in EventBranches : handler(1, Event(b, FALSE, TRUE))
  \/ \E subFolders \in FolderLists : createServiceRepositories(1, subFolders)
  \/ \E t \in TaskSlots : createSucceeds(1, t)
  \/ \E t \in TaskSlots : createFails(1, t, FALSE)
  \/ \E t \in TaskSlots, ok \in BOOLEAN : buildAnswers(1, t, ok)
  \/ Succeeded(1) /\ handler(2, Event(branchName(1), FALSE, FALSE))
  \/ getLastCommitLog(2)
  \/ \E diffs \in SequenceDiffs : getFileDifferences(2, diffs)
  \/ mapDifference(2)
  \/ mapDone(2)
  \/ handlerSettles(2)
  \/ \E t \in TaskSlots : describeFound(2, t)
  \/ \E t \in TaskSlots : describeNotFound(2, t)
  \/ \E t \in TaskSlots : describeFails(2, t)
  \/ \E t \in TaskSlots : createSucceeds(2, t)
  \/ \E t \in TaskSlots : createFails(2, t, FALSE)
  \/ \E t \in TaskSlots, ok \in BOOLEAN : buildAnswers(2, t, ok)
  \/ \E t \in TaskSlots : deleteListed(2, t)
  \/ \E t \in TaskSlots : deleteListFails(2, t)
  \/ \E t \in TaskSlots, n \in RepoNames, ok \in BOOLEAN : deleteAnswers(2, t, n, ok)

SpecSequence == InitSequence /\ [][NextSequence]_vars

(***************************** vocabulary of the claims *********************)
\* the invocation handles a complete event, of the given path
WellFormed(inv) == hpc[inv] # "idle" /\ event[inv].missing = "none"
OnDeleted(inv) == WellFormed(inv) /\ event[inv].deleted
OnCreated(inv) == WellFormed(inv) /\ ~event[inv].deleted /\ event[inv].created
OnUpdated(inv) == WellFormed(inv) /\ ~event[inv].deleted /\ ~event[inv].created

TaskIds(inv) == 1..Len(tasks[inv])

\* the requests of operation op that element t of invocation inv issued
CallsOf(inv, t, op) == {c \in calls : c.inv = inv /\ c.task = t /\ c.op = op}

\* the builds element t of invocation inv submitted
BuildsOf(inv, t) == {b \in builds : b.inv = inv /\ b.task = t}

\* the branch name matches the protected-branch pattern master|main|dev|prod
ProtectedBranch(b) == \E w \in ProtectedWords : Contains(b, w)

\* n is the registry of some service on a protected branch
ProtectedRegistry(n) ==
  \E s \in KnownServices, b \in KnownBranches : ProtectedBranch(b) /\ n = EcrName(s, b)

(***************************** C3 ******************************************)
\* C3: deleteEcrRepository never issues a delete for a registry whose branch
\* segment matches the protected-branch pattern, whatever branch and service
\* it was called for and whatever registries exist.
C3_NeverDeletesProtected ==
  \A c \in calls : c.op = "deleteRepository" => ~ProtectedRegistry(c.name)

(***************************** C4 ******************************************)
\* C4: a branch-deleted event for an unprotected branch b issues deletes
\* exactly for the registries <prefix>-<service>-<b>; every listed registry
\* of another branch, or outside the prefix, is left alone and reported as
\* skipped.
C4_DeletesOnlyOwnBranch ==
  \A inv \in Invocations :
    OnDeleted(inv) /\ ~ProtectedBranch(branchName(inv)) =>
      \A e \in tasks[inv][1].entries :
        LET own == \E s \in KnownServices : e.repositoryName = EcrName(s, branchName(inv))
        IN  /\ own => e.status # "skipped"
            /\ ~own => e.status = "skipped"
                       /\ Call(inv, 1, "deleteRepository", e.repositoryName) \notin calls

(***************************** C1 ******************************************)
\* the path of a difference, whichever side carries it
DiffPath(difference) ==
  IF difference.beforeBlob # Undefined THEN difference.beforeBlob ELSE difference.afterBlob

\* the change is build-relevant: a marker file or an allow-listed extension
Relevant(difference) ==
  \/ Includes(FILENAMES, PathParse(DiffPath(difference)).base)
  \/ Includes(EXTENSIONS, PathParse(DiffPath(difference)).ext)

\* the positions of the relevant changes of the diff that lie under service s
RelevantFor(inv, s) ==
  {i \in 1..Len(differences[inv]) :
     /\ Relevant(differences[inv][i])
     /\ Resolve(DiffPath(differences[inv][i])).serviceName = s}

\* the map of the invocation is over (finished or abandoned)
MapOver(inv) == OnUpdated(inv) /\ hpc[inv] \in {"settling", "returned", "failed"}

\* C1: in a branch-updated invocation, for every service s with N >= 1
\* build-relevant changes in the diff, exactly one of them triggers an
\* action for s (ensure + build, or delete) and the other N-1 are reported
\* as skipped.
C1_OneActionPerService ==
  \A inv \in Invocations : MapOver(inv) =>
    \A s \in KnownServices :
      RelevantFor(inv, s) # {} =>
        /\ Cardinality({t \in TaskIds(inv) \cap RelevantFor(inv, s) :
                          tasks[inv][t].kind \in {"ensure", "delete"}}) = 1
        /\ Cardinality({t \in TaskIds(inv) \cap RelevantFor(inv, s) :
                          tasks[inv][t].kind = "skip"})
             = Cardinality(RelevantFor(inv, s)) - 1

(***************************** C5 ******************************************)
\* C5: on a branch-created event every listed service directory gets its
\* registry <prefix>-<service>-<branch> ensured and one build submitted with
\* BRANCH_NAME the event's branch, also when the registry existed already
\* (the collaborators answering without any other error).
C5_CreatedBuildsEveryService ==
  \A inv \in Invocations : OnCreated(inv) =>
    \A t \in TaskIds(inv) :
      tasks[inv][t].pc = "done" /\ tasks[inv][t].created # "error" =>
        \E b \in BuildsOf(inv, t) :
          /\ b.SERVICE_NAME = tasks[inv][t].serviceName
          /\ b.BRANCH_NAME = branchName(inv)
          /\ b.ECR_REPO = EcrName(tasks[inv][t].serviceName, branchName(inv))

(***************************** C7 ******************************************)
\* C7: a changed path without a third directory segment yields no service
\* target: it is skipped, issues no registry request and no build, and does
\* not enter the dedup set.
C7_ShallowPathIgnored ==
  \A inv \in Invocations : OnUpdated(inv) =>
    /\ ~Includes(hasQueuedBuild[inv], Undefined)
    /\ \A t \in TaskIds(inv) :
         tasks[inv][t].serviceName = Undefined =>
           /\ tasks[inv][t].kind = "skip"
           /\ \A c \in calls : ~(c.inv = inv /\ c.task = t)
           /\ BuildsOf(inv, t) = {}

(***************************** C8 ******************************************)
\* C8: the handler's result does not settle while a registry or build
\* operation the invocation issued is still pending, on any of the three
\* paths.
C8_ReturnsAfterAllSettled ==
  \A inv \in Invocations :
    hpc[inv] \in {"returned", "failed"} =>
      \A t \in TaskIds(inv) : tasks[inv][t].pc = "done"

(***************************** C10 *****************************************)
\* C10: ensure returns the existing reference without a create when the
\* lookup succeeds, issues exactly one create when the lookup answers
\* not-found, and when the lookup fails otherwise it does not complete
\* normally, issues no create and no build is submitted.
C10_EnsureContract ==
  \A inv \in Invocations : \A t \in TaskIds(inv) :
    LET task == tasks[inv][t]
    IN  task.kind = "ensure" =>
          /\ task.described = "found" =>
               /\ task.repository = task.repositoryName
               /\ CallsOf(inv, t, "createRepository") = {}
          /\ task.described = "notFound" =>
               /\ Cardinality(CallsOf(inv, t, "createRepository")) = 1
               /\ task.created = "created" => task.repository = task.repositoryName
          /\ task.described = "error" =>
               /\ task.ensured = "threw"
               /\ CallsOf(inv, t, "createRepository") = {}
               /\ BuildsOf(inv, t) = {}

(***************************** C2 ******************************************)
\* a registry step or the build submission of the element failed
FailedTask(task) ==
  \/ task.described = "error"
  \/ task.created \in {"error", "exists"}
  \/ task.settled = "rejected"
  \/ task.unhandled

\* C2: within one invocation the failure of service A's ensure/create or
\* build submission never prevents service B's build: while A has failed, B's
\* pending registry answer can still be taken and leads to B's build.
C2_SettleAll ==
  \A inv \in Invocations : \A a \in TaskIds(inv), b \in TaskIds(inv) :
    a # b /\ FailedTask(tasks[inv][a]) /\ hpc[inv] # "map" =>
      /\ tasks[inv][b].pc = "describe" =>
           ENABLED (describeFound(inv, b) \/ describeNotFound(inv, b))
      /\ tasks[inv][b].pc = "create" /\ tasks[inv][b].repositoryName \notin repos =>
           ENABLED createSucceeds(inv, b)

(***************************** C6 ******************************************)
\* n is the registry of a service other than s, on any branch
OfOtherService(n, s) ==
  \E o \in (KnownServices \cup {Undefined}) \ {s}, b \in KnownBranches : n = EcrName(o, b)

C9_IdempotentCreate ==
  \A inv \in Invocations : \A t \in TaskIds(inv) :
    tasks[inv][t].kind = "ensure" /\ tasks[inv][t].created = "exists" =>
      /\ tasks[inv][t].repository = tasks[inv][t].repositoryName
      /\ BuildsOf(inv, t) # {}

(***************************** C11 *****************************************)
\* what the map of the invocation started for the services: those it looks
\* up (to build) and those whose registry it deletes
ActionsOf(inv) ==
  {<<tasks[inv][t].serviceName, tasks[inv][t].kind>> :
     t \in {u \in TaskIds(inv) : /\ tasks[inv][u].kind # "skip"
                                 /\ tasks[inv][u].serviceName \in KnownServices}}

\* C11: two branch-updated invocations whose diffs are two orderings of the
\* same multiset of changes issue the same set of per-service actions (the
\* same services built, the same services' registries deleted).
C11_OrderIndependent ==
  \A i \in Invocations, j \in Invocations :
    /\ hpc[i] = "settling" /\ hpc[j] = "settling"
    /\ SameChanges(differences[i], differences[j])
    => ActionsOf(i) = ActionsOf(j)

(***************************** C12 *****************************************)
\* C12: a malformed event (missing records, reference block, branch ref or
\* source identifier) issues no collaborator call and ends the invocation in
\* a failure outcome, never in a normal return.
C12_MalformedEventFails ==
  \A inv \in Invocations :
    hpc[inv] # "idle" /\ event[inv].missing # "none" =>
      /\ \A c \in calls : c.inv # inv
      /\ hpc[inv] # "returned"

(***************************** C13 *****************************************)
\* the invocation issued no registry create, no registry delete and no build
NoRegistryChangeOrBuild(inv) ==
  /\ \A c \in calls : c.inv = inv => c.op \notin {"createRepository", "deleteRepository"}
  /\ \A b \in builds : b.inv # inv

\* a version-control lookup of the invocation failed for the whole event
SourceUnavailable(inv) ==
  /\ hpc[inv] = "failed"
  /\ idx[inv] = 0
  /\ \E c \in calls : c.inv = inv /\ c.op \in {"getFolder", "getCommit", "getDifferences"}

\* C13: when getCommit or getDifferences (branch updated) or getFolder
\* (branch created) fails, the invocation ends in failure, and no registry
\* create, registry delete or build submission is issued in that invocation.
C13_SourceUnavailableFails ==
  /\ [][\A inv \in Invocations :
          getFolderFails(inv) \/ getCommitFails(inv) \/ getDifferencesFails(inv) =>
            /\ hpc'[inv] = "failed"
            /\ NoRegistryChangeOrBuild(inv)']_vars
  /\ [](\A inv \in Invocations :
          SourceUnavailable(inv) => NoRegistryChangeOrBuild(inv) /\ ~ENABLED Run(inv))

\* the diff of a branch-updated invocation could not be read
C13_Witness ==
  \E inv \in Invocations :
    /\ OnUpdated(inv)
    /\ SourceUnavailable(inv)
    /\ Call(inv, 0, "getDifferences", <<>>) \in calls

(***************************** C14 *****************************************)
\* the registries deleteEcrRepository of element t enumerated: those that
\* exist and those it has deleted since
Enumerated(inv, t) ==
  repos \cup {e.repositoryName : e \in {d \in tasks[inv][t].entries : d.status = "deleted"}}

\* C14: deleteEcrRepository is best-effort: every matched registry gets its
\* delete issued whatever the others answered, the report has exactly one
\* entry per enumerated registry (deleted, skipped or the failure of its
\* delete), each telling what happened to that registry, and a failed delete
\* never makes the whole call fail.
C14_DeleteBestEffort ==
  \A inv \in Invocations : OnDeleted(inv) =>
    \A t \in TaskIds(inv) :
      LET task == tasks[inv][t]
      IN  task.pc \in {"deleting", "done"} /\ task.entries # {} =>
            /\ {e.repositoryName : e \in task.entries} = Enumerated(inv, t)
            /\ \A e \in task.entries, f \in task.entries :
                 e.repositoryName = f.repositoryName => e = f
            /\ \A e \in task.entries :
                 /\ ShouldDelete(branchName(inv), task.serviceName, e.repositoryName)
                      => Call(inv, t, "deleteRepository", e.repositoryName) \in calls
                 /\ e.status = "deleted" => e.repositoryName \notin repos
                 /\ e.status = "skipped" =>
                      Call(inv, t, "deleteRepository", e.repositoryName) \notin calls
                 /\ e.status \in {"pending", "failed", "skipped"} => e.repositoryName \in repos
            /\ task.settled # "rejected"
            /\ hpc[inv] # "failed"
            /\ task.pc = "done" <=> \A e \in task.entries : e.status # "pending"

\* one delete failed, another registry was deleted all the same, and the
\* call returned its report
C14_Witness ==
  \E inv \in Invocations : \E t \in TaskIds(inv) :
    /\ OnDeleted(inv)
    /\ hpc[inv] = "returned"
    /\ \E e \in tasks[inv][t].entries, f \in tasks[inv][t].entries :
         e.status = "failed" /\ f.status = "deleted"

(***************************** C15 *****************************************)
\* the operations the invocation has requested of CodeCommit and ECR
OpsOf(inv) == {c.op : c \in {d \in calls : d.inv = inv}}

\* C15: a complete event takes exactly one path.  With the deleted flag set,
\* whatever the created flag, it is DeleteAll: the registries are listed at
\* once, no folder, commit or diff is read, no registry is created and no
\* build submitted.  Otherwise a created event only lists the folders and
\* creates, and any other event starts by reading the commit and never
\* lists the folders.
C15_EventRouting ==
  \A inv \in Invocations : WellFormed(inv) =>
    IF event[inv].deleted
    THEN /\ Call(inv, 1, "describeRepositories", <<>>) \in calls
         /\ Len(tasks[inv]) = 1 /\ tasks[inv][1].kind = "delete"
         /\ OpsOf(inv) \subseteq {"describeRepositories", "deleteRepository"}
         /\ \A b \in builds : b.inv # inv
    ELSE IF event[inv].created
    THEN /\ "getFolder" \in OpsOf(inv)
         /\ OpsOf(inv) \subseteq {"getFolder", "createRepository"}
    ELSE /\ "getCommit" \in OpsOf(inv)
         /\ "getFolder" \notin OpsOf(inv)
         /\ Len(tasks[inv]) <= Len(differences[inv])

\* an event with both flags set deleted a registry of its branch, and the
\* invocation returned
C15_Witness ==
  \E inv \in Invocations :
    /\ OnDeleted(inv) /\ event[inv].created
    /\ hpc[inv] = "returned"
    /\ \E e \in tasks[inv][1].entries : e.status = "deleted"

(***************************** C16 *****************************************)
\* C16: a change triggers an action only if the full base name of its file
\* is one of the marker names or its extension is allow-listed; every other
\* change is reported as skipped, with no registry request and no build.
C16_RelevanceFilter ==
  \A inv \in Invocations : OnUpdated(inv) =>
    \A t \in TaskIds(inv) :
      ~Relevant(differences[inv][t]) =>
        /\ tasks[inv][t].kind = "skip"
        /\ \A c \in calls : ~(c.inv = inv /\ c.task = t)
        /\ BuildsOf(inv, t) = {}

(***************************** C17 *****************************************)
\* a file change of the diff is still to be resolved by differences.map
MapRunning(inv) == hpc[inv] = "map" /\ idx[inv] <= Len(differences[inv])

\* the dedup set changes only where the diff arrives and in the map itself
DedupOnlyInMap ==
  \A inv \in Invocations :
    hasQueuedBuild'[inv] # hasQueuedBuild[inv] => hpc[inv] \in {"getDifferences", "map"}

\* C17: in a branch-updated invocation no registry lookup, create, delete
\* or build submission is issued before every change of the diff has been
\* resolved and checked against the dedup set, and no continuation of a
\* registry or build operation touches the dedup set.
C17_DedupBarrier ==
  /\ [](\A inv \in Invocations :
          OnUpdated(inv) /\ MapRunning(inv) =>
            /\ OpsOf(inv) \subseteq {"getCommit", "getDifferences"}
            /\ \A b \in builds : b.inv # inv)
  /\ [][DedupOnlyInMap]_vars

\* the second half of C17 on its own
C17_DedupSetUntouched == [][DedupOnlyInMap]_vars

(***************************** C18 *****************************************)
\* C18: when the diff of a branch-updated invocation holds an added
\* build-relevant file (a record with only its after side), the service of
\* that file is ensured and built, and every other change of the diff is
\* processed as well.
C18_AddedFileBuilds ==
  \A inv \in Invocations : MapOver(inv) =>
    \A i \in 1..Len(differences[inv]) :
      LET difference == differences[inv][i]
      IN  difference.changeType = "A" /\ Relevant(difference) =>
            /\ Len(tasks[inv]) = Len(differences[inv])
            /\ \E t \in TaskIds(inv) :
                 /\ tasks[inv][t].kind = "ensure"
                 /\ tasks[inv][t].serviceName = Resolve(difference.afterBlob).serviceName
            /\ hpc[inv] # "failed"

(***************************** C19 *****************************************)
\* the registry the branch-created invocation first created for service s
CreatedFor(first, s) ==
  {tasks[first][t].repository :
     t \in {u \in TaskIds(first) : /\ tasks[first][u].serviceName = s
                                   /\ tasks[first][u].created = "created"}}

\* what C19 asks of element t of the later invocation for the registry r
\* the earlier one created for its service; exempt: protected branches are
\* exempt from deletion
NameConsistent(later, t, r, exempt) ==
  LET task == tasks[later][t]
  IN  /\ r = EcrName(task.serviceName, branchName(later))
      /\ task.kind = "ensure" =>
           /\ task.repositoryName = r
           /\ task.described \in {"none", "found", "error"}
           /\ CallsOf(later, t, "createRepository") = {}
           /\ task.repository \in {Undefined, r}
      /\ task.kind = "delete" /\ task.entries # {} =>
           IF exempt /\ ProtectedBranch(branchName(later))
           THEN /\ [repositoryName |-> r, status |-> "skipped"] \in task.entries
                /\ r \in repos
           ELSE /\ Call(later, t, "deleteRepository", r) \in calls
                /\ [repositoryName |-> r, status |-> "deleted"] \in task.entries
                     <=> r \notin repos

\* C19: the name a branch-created invocation creates for service s on
\* branch b is the name a later branch-updated invocation looks up for a
\* change under s and the name its service-scoped delete matches: the
\* update finds the registry and creates no second one, and a marker-file
\* deletion removes that same registry.
C19_NameConsistency ==
  OnCreated(1) /\ OnUpdated(2) =>
    \A t \in TaskIds(2) : \A r \in CreatedFor(1, tasks[2][t].serviceName) :
      NameConsistent(2, t, r, FALSE)

\* C19 (amended): as C19, except that on a branch matching the protected
\* pattern the marker-file deletion reports that registry as skipped and
\* leaves it in place.
C19_NameConsistencyUnlessProtected ==
  OnCreated(1) /\ OnUpdated(2) =>
    \A t \in TaskIds(2) : \A r \in CreatedFor(1, tasks[2][t].serviceName) :
      NameConsistent(2, t, r, TRUE)

\* after api and web were created on an unprotected branch, the later
\* update found web's registry and built, and the deletion of api's marker
\* file removed api's registry
C19_Witness ==
  /\ OnCreated(1) /\ OnUpdated(2)
  /\ \E t \in TaskIds(2), u \in TaskIds(2) :
       /\ tasks[2][t].kind = "delete"
       /\ [repositoryName |-> EcrName(Api, branchName(2)), status |-> "deleted"]
            \in tasks[2][t].entries
       /\ EcrName(Api, branchName(2)) \in CreatedFor(1, Api)
       /\ tasks[2][u].kind = "ensure"
       /\ tasks[2][u].described = "found"
       /\ tasks[2][u].repository \in CreatedFor(1, Web)
       /\ BuildsOf(2, u) # {}

(***************************** C20 *****************************************)
\* element t of the invocation obtained the reference of its registry, by a
\* successful lookup or a successful create it had requested
Obtained(inv, t) ==
  LET task == tasks[inv][t]
  IN  /\ task.repository = task.repositoryName
      /\ \/ /\ task.described = "found"
            /\ Call(inv, t, "describeRepositories", task.repositoryName) \in calls
         \/ /\ task.created = "created"
            /\ Call(inv, t, "createRepository", task.repositoryName) \in calls

\* every build submitted follows the reference its element obtained
BuildsFollowReference ==
  \A b \in builds :
    /\ Obtained(b.inv, b.task)
    /\ b.ECR_REPO = tasks[b.inv][b.task].repository
    /\ b.ECR_REPO = EcrName(b.SERVICE_NAME, branchName(b.inv))
    /\ b.SERVICE_NAME = tasks[b.inv][b.task].serviceName

\* an element whose registry step ended without a reference submitted no build
NoReferenceNoBuild ==
  \A inv \in Invocations : \A t \in TaskIds(inv) :
    tasks[inv][t].kind \in {"ensure", "create"} /\ ~Obtained(inv, t) => BuildsOf(inv, t) = {}

\* a step submits a build only for an element that had submitted none
SubmitsOnce ==
  \A b \in builds' \ builds :
    /\ BuildsOf(b.inv, b.task) = {}
    /\ Cardinality({c \in builds' : c.inv = b.inv /\ c.task = b.task}) = 1
    /\ tasks[b.inv][b.task].pc \in {"describe", "create"}

\* C20: a build is submitted for service s only after the reference of the
\* registry <prefix>-<s>-<branch> was obtained in the same invocation, with
\* ECR_REPO that registry's name; without a reference no build is
\* submitted; and a reference leads to at most one submission.
C20_EnsureBeforeDispatch ==
  /\ [](BuildsFollowReference /\ NoReferenceNoBuild)
  /\ [][SubmitsOnce]_vars

\* a build was submitted after the registry was missing and then created,
\* while the lookup of another change of the diff had failed
C20_Witness ==
  \E inv \in Invocations : \E t \in TaskIds(inv), u \in TaskIds(inv) :
    /\ OnUpdated(inv)
    /\ tasks[inv][t].described = "notFound"
    /\ tasks[inv][t].created = "created"
    /\ BuildsOf(inv, t) # {}
    /\ tasks[inv][u].described = "error"
    /\ tasks[inv][u].pc = "done"

====
